---- MODULE Spec2Model ----
(***************************************************************************)
(* Model of the documentation generator (tsDocumenter.js and its           *)
(* multi-language variant) and of the unit-test generator (the variant     *)
(* with the test-file existence check, and the older                       *)
(* src/UnitTestCreator/unitTestCreator.js).                                *)
(*                                                                         *)
(* A JavaScript string is a sequence of one-character strings; null is     *)
(* the value Null, which is no such sequence.                              *)
(***************************************************************************)
EXTENDS Integers, Sequences, FiniteSets, TLC

\* ------------------------------------------------------------------ text

\* The null value of JavaScript (distinct from every string of characters).
Null == <<"null-value">>

\* The text `${null}` interpolates to.
NullText == <<"n", "u", "l", "l">>

OpenMarker == <<"/", "*", "*">>
CloseMarker == <<"*", "/">>
NL == "\n"

\* A character that a string of this module cannot hold is written as the
\* one-character text of its escape, "\\u00a0" for U+00A0.

\* The line terminators of JavaScript: LF, CR, U+2028, U+2029.
LineTerminators == {"\n", "\r", "\\u2028", "\\u2029"}

\* The white space of JavaScript: TAB, VT, FF, SP, NBSP, the byte order mark
\* and the characters of the category Zs.
WhiteSpace ==
  {"\t", "\\u000b", "\f", " ", "\\u00a0", "\\ufeff", "\\u1680",
   "\\u2000", "\\u2001", "\\u2002", "\\u2003", "\\u2004", "\\u2005",
   "\\u2006", "\\u2007", "\\u2008", "\\u2009", "\\u200a",
   "\\u202f", "\\u205f", "\\u3000"}

\* White space as String.prototype.trim and the regular expression \s see it.
IsSpace(c) == c \in WhiteSpace \cup LineTerminators

\* pat occurs in text at the 0-based index i.
OccursAt(text, pat, i) ==
  /\ i >= 0
  /\ i + Len(pat) <= Len(text)
  /\ \A j \in 1..Len(pat) : text[i + j] = pat[j]

\* String.prototype.indexOf(pat, from): the least index >= from, or -1.
indexOf(text, pat, from) ==
  LET hits == {i \in from..(Len(text) - Len(pat)) : OccursAt(text, pat, i)}
  IN IF hits = {} THEN -1 ELSE CHOOSE i \in hits : \A k \in hits : i <= k

Clamp(i, n) == IF i < 0 THEN 0 ELSE IF i > n THEN n ELSE i

\* String.prototype.substring(a, b): both ends clamped to the string, and
\* swapped when a > b.
substring(text, a, b) ==
  LET x == Clamp(a, Len(text))
      y == Clamp(b, Len(text))
      lo == IF x <= y THEN x ELSE y
      hi == IF x <= y THEN y ELSE x
  IN SubSeq(text, lo + 1, hi)

\* String.prototype.split('\n'): the pieces between line feeds (one piece,
\* possibly empty, when there is none).
RECURSIVE split(_)
split(text) ==
  LET i == indexOf(text, <<NL>>, 0)
  IN IF i = -1 THEN <<text>>
     ELSE <<SubSeq(text, 1, i)>> \o split(SubSeq(text, i + 2, Len(text)))

RECURSIVE trimStart(_)
trimStart(s) ==
  IF s /= <<>> /\ IsSpace(Head(s)) THEN trimStart(Tail(s)) ELSE s

RECURSIVE trimEnd(_)
trimEnd(s) ==
  IF s /= <<>> /\ IsSpace(s[Len(s)]) THEN trimEnd(SubSeq(s, 1, Len(s) - 1)) ELSE s

\* String.prototype.trim.
trim(s) == trimEnd(trimStart(s))

\* line.replace(/^\* ?/, ''): one leading asterisk and one space after it.
stripAsterisk(line) ==
  IF line /= <<>> /\ Head(line) = "*"
  THEN IF Len(line) >= 2 /\ line[2] = " " THEN SubSeq(line, 3, Len(line))
       ELSE Tail(line)
  ELSE line

\* Array.prototype.join('\n').
RECURSIVE join(_)
join(lines) ==
  IF lines = <<>> THEN <<>>
  ELSE IF Len(lines) = 1 THEN lines[1]
  ELSE lines[1] \o <<NL>> \o join(Tail(lines))

cleanLines(lines) == [i \in 1..Len(lines) |-> stripAsterisk(trim(lines[i]))]

\* const commentStart = text.indexOf('/**')
commentStartOf(text) == indexOf(text, OpenMarker, 0)

\* const commentEnd = text.indexOf('*/', commentStart)
commentEndOf(text) == indexOf(text, CloseMarker, commentStartOf(text))

\* extractComment(text): the content between the first open marker and the
\* first close marker found from it, or null.
extractComment(text) ==
  LET commentStart == commentStartOf(text)
  IN IF commentStart = -1 THEN Null
     ELSE LET commentEnd == commentEndOf(text)
          IN IF commentEnd = -1 THEN Null
             ELSE join(cleanLines(split(substring(text, commentStart + 3, commentEnd))))

\* The template literal `\n${x}`.
commentOf(x) == <<NL>> \o (IF x = Null THEN NullText ELSE x)

\* The truthiness test `if (x)` on a string or null.
Truthy(x) == x /= Null /\ x /= <<>>

\* ------------------------------------------------------------ completion

\* What the completion endpoint can answer in a run: a transport or HTTP
\* failure, a choice without a message, a message without content, or a
\* message whose content is one of Contents.
\* The text "/**", a line feed, each line written " * <content>", then " */".
RECURSIVE starLines(_)
starLines(lines) ==
  IF lines = <<>> THEN <<>>
  ELSE <<" ", "*", " ">> \o Head(lines) \o <<NL>> \o starLines(Tail(lines))

blockOf(lines) == OpenMarker \o <<NL>> \o starLines(lines) \o <<" ">> \o CloseMarker

\* The content lines of the documentation block the endpoint answers with.
BlockLines == <<<<"a">>, <<"b">>>>
GoodBlock == blockOf(BlockLines)
\* An open marker that is never closed.
OpenBlock == OpenMarker \o <<" ", "a">>
Contents == {GoodBlock, OpenBlock, <<"a">>, <<" ", "a", NL>>, <<" ">>, <<>>}

Responses ==
  {[kind |-> "error", hasMessage |-> FALSE, content |-> Null],
   [kind |-> "ok", hasMessage |-> FALSE, content |-> Null],
   [kind |-> "ok", hasMessage |-> TRUE, content |-> Null]}
  \cup {[kind |-> "ok", hasMessage |-> TRUE, content |-> c] : c \in Contents}

\* createDoc, from the response on: the trimmed content of the first choice,
\* or null when the request threw, the message is missing (reading
\* message.content throws inside the try) or the content is falsy.
createDoc(resp) ==
  IF resp.kind = "error" THEN Null
  ELSE IF ~resp.hasMessage THEN Null
  ELSE IF Truthy(resp.content) THEN trim(resp.content)
  ELSE Null

\* generateTestFileContent, from the response on (both test generators).
generateTestFileContent(resp) ==
  IF resp.kind = "error" THEN Null
  ELSE IF ~resp.hasMessage THEN Null
  ELSE IF Truthy(resp.content) THEN trim(resp.content)
  ELSE Null

\* --------------------------------------------------------------- prompt

\* The index of the first line terminator of text at or after from, or the
\* length of text (the `.` of a regular expression stops there).
LineEnd(text, from) ==
  LET ends == {i \in from..(Len(text) - 1) : text[i + 1] \in LineTerminators}
  IN IF ends = {} THEN Len(text) ELSE CHOOSE i \in ends : \A k \in ends : i <= k

\* code.replace(/\/\/.*/g, ''): every "//" goes with the rest of its line.
RECURSIVE stripLineComments(_)
stripLineComments(code) ==
  LET i == indexOf(code, <<"/", "/">>, 0)
  IN IF i = -1 THEN code
     ELSE SubSeq(code, 1, i)
          \o stripLineComments(SubSeq(code, LineEnd(code, i + 2) + 1, Len(code)))

\* code.replace(/\/\*[\s\S]*?\*\//g, ''): every "/*" goes with the text up to
\* the first "*/" after it.
RECURSIVE stripBlockComments(_)
stripBlockComments(code) ==
  LET i == indexOf(code, <<"/", "*">>, 0)
      j == IF i = -1 THEN -1 ELSE indexOf(code, CloseMarker, i + 2)
  IN IF j = -1 THEN code
     ELSE SubSeq(code, 1, i) \o stripBlockComments(SubSeq(code, j + 3, Len(code)))

\* removeComments(code)
removeComments(code) == stripBlockComments(stripLineComments(code))

\* The replacement text of String.prototype.replace for a string pattern:
\* "$$" stands for "$", "$&" for the matched text, "$`" for the text before
\* the match and "$'" for the text after it; there are no groups, so any other
\* "$" stands for itself.  (The grave accent is written "\\u0060".)
RECURSIVE expandReplacement(_, _, _, _)
expandReplacement(r, matched, before, after) ==
  LET rest == expandReplacement(SubSeq(r, 3, Len(r)), matched, before, after)
  IN IF r = <<>> THEN <<>>
     ELSE IF Len(r) >= 2 /\ r[1] = "$" /\ r[2] = "$" THEN <<"$">> \o rest
     ELSE IF Len(r) >= 2 /\ r[1] = "$" /\ r[2] = "&" THEN matched \o rest
     ELSE IF Len(r) >= 2 /\ r[1] = "$" /\ r[2] = "\\u0060" THEN before \o rest
     ELSE IF Len(r) >= 2 /\ r[1] = "$" /\ r[2] = "'" THEN after \o rest
     ELSE <<Head(r)>> \o expandReplacement(Tail(r), matched, before, after)

\* s.replace(pattern, replacement) with a string pattern: the first occurrence.
replace(s, pattern, replacement) ==
  LET i == indexOf(s, pattern, 0)
  IN IF i = -1 THEN s
     ELSE LET before == SubSeq(s, 1, i)
              after == SubSeq(s, i + Len(pattern) + 1, Len(s))
          IN before \o expandReplacement(replacement, pattern, before, after)
               \o after

ClassToken == <<"{", "c", "l", "a", "s", "s", "N", "a", "m", "e", "}">>
MethodToken == <<"{", "m", "e", "t", "h", "o", "d", "N", "a", "m", "e", "}">>
FileToken == <<"{", "t", "e", "s", "t", "F", "i", "l", "e", "N", "a", "m", "e", "}">>

\* generateTestFileContent, up to the request: the user message.
userMessage(before, after, className, funcName, testName, clasCode) ==
  LET beforeCode == replace(before, ClassToken, className)
      afterCode == replace(replace(after, MethodToken, funcName), FileToken, testName)
  IN beforeCode \o removeComments(clasCode) \o afterCode

\* ---------------------------------------------------------------- paths

Ext == <<".", "t", "s">>
SpecExt == <<".", "s", "p", "e", "c", ".", "t", "s">>

EndsWith(s, suffix) ==
  Len(s) >= Len(suffix) /\ SubSeq(s, Len(s) - Len(suffix) + 1, Len(s)) = suffix

\* 0-based index of the last "/" of p, or -1.
LastSlash(p) ==
  LET hits == {i \in 0..(Len(p) - 1) : p[i + 1] = "/"}
  IN IF hits = {} THEN -1 ELSE CHOOSE i \in hits : \A k \in hits : k <= i

\* path.dirname(p), for a path with a directory part.
dirname(p) ==
  IF LastSlash(p) = -1 THEN <<".">>
  ELSE IF LastSlash(p) = 0 THEN <<"/">>
  ELSE SubSeq(p, 1, LastSlash(p))

\* path.basename(p, ext): the last segment, without ext when it ends with ext
\* and is more than ext.
basename(p, ext) ==
  LET base == SubSeq(p, LastSlash(p) + 2, Len(p))
  IN IF EndsWith(base, ext) /\ base /= ext
     THEN SubSeq(base, 1, Len(base) - Len(ext))
     ELSE base

\* The pieces of s between the occurrences of the character c.
RECURSIVE SplitOn(_, _)
SplitOn(s, c) ==
  LET i == indexOf(s, <<c>>, 0)
  IN IF i = -1 THEN <<s>>
     ELSE <<SubSeq(s, 1, i)>> \o SplitOn(SubSeq(s, i + 2, Len(s)), c)

\* The segments put together with "/" between them.
RECURSIVE JoinSegments(_)
JoinSegments(segs) ==
  IF segs = <<>> THEN <<>>
  ELSE IF Len(segs) = 1 THEN segs[1]
  ELSE segs[1] \o <<"/">> \o JoinSegments(Tail(segs))

\* The segments of a path resolved from the left onto the stack done: empty
\* and "." segments go, ".." takes the segment before it (above the start of
\* a relative path it stays).
RECURSIVE Resolve(_, _, _)
Resolve(segs, done, aboveRoot) ==
  IF segs = <<>> THEN done
  ELSE LET seg == Head(segs)
       IN IF seg = <<>> \/ seg = <<".">> THEN Resolve(Tail(segs), done, aboveRoot)
          ELSE IF seg = <<".", ".">> THEN
            IF done /= <<>> /\ done[Len(done)] /= <<".", ".">>
            THEN Resolve(Tail(segs), SubSeq(done, 1, Len(done) - 1), aboveRoot)
            ELSE IF aboveRoot THEN Resolve(Tail(segs), Append(done, seg), aboveRoot)
            ELSE Resolve(Tail(segs), done, aboveRoot)
          ELSE Resolve(Tail(segs), Append(done, seg), aboveRoot)

\* path.normalize(p) of the POSIX path module.
normalize(p) ==
  IF p = <<>> THEN <<".">>
  ELSE LET isAbsolute == p[1] = "/"
           trailing == p[Len(p)] = "/"
           body == JoinSegments(Resolve(SplitOn(p, "/"), <<>>, ~isAbsolute))
           named == IF body = <<>> /\ ~isAbsolute THEN <<".">> ELSE body
           closed == IF named /= <<>> /\ trailing THEN named \o <<"/">> ELSE named
       IN IF isAbsolute THEN <<"/">> \o closed ELSE closed

\* path.join(dir, name): the arguments that are not empty, with "/" between
\* them, normalised.
pathJoin(dir, name) ==
  IF dir = <<>> /\ name = <<>> THEN <<".">>
  ELSE IF dir = <<>> THEN normalize(name)
  ELSE IF name = <<>> THEN normalize(dir)
  ELSE normalize(dir \o <<"/">> \o name)

\* `${path.basename(filePath, '.ts')}.${methodName}.spec.ts`
testFileName(filePath, methodName) ==
  basename(filePath, Ext) \o <<".">> \o methodName \o SpecExt

\* path.join(path.dirname(filePath), testFileName)
testFilePath(filePath, methodName) ==
  pathJoin(dirname(filePath), testFileName(filePath, methodName))

\* -------------------------------------------------------------- project

\* Bounds of the model.
MaxDecls == 2
MaxRuns == 2
MaxRetries == 1

\* config.minLength, and the lengths a declaration's text takes around it.
MinLength == 2
Lengths == {MinLength - 1, MinLength, MinLength + 1}

\* The source files under the directory given on the command line.
FilePaths == <<
  <<"/", "d", "/", "a", ".", "t", "s">>,
  <<"/", "d", "/", "b", ".", "t", "s", "x">> >>

\* The declarations a project can hold, in the order of the syntax tree:
\*   a.ts:  class Foo { m() {}  static m() {}  p  constructor() {} }
\*   b.tsx: class Bar { m() {} }  enum E { e }  function f() {}
Corpus == <<
  [file |-> 1, kind |-> "class",       owner |-> 0, name |-> <<"F", "o", "o">>],
  [file |-> 1, kind |-> "method",      owner |-> 1, name |-> <<"m">>],
  [file |-> 1, kind |-> "method",      owner |-> 1, name |-> <<"m">>],
  [file |-> 1, kind |-> "property",    owner |-> 1, name |-> <<"p">>],
  [file |-> 1, kind |-> "constructor", owner |-> 1, name |-> <<>>],
  [file |-> 2, kind |-> "class",       owner |-> 0, name |-> <<"B", "a", "r">>],
  [file |-> 2, kind |-> "method",      owner |-> 6, name |-> <<"m">>],
  [file |-> 2, kind |-> "member",      owner |-> 0, name |-> <<"e">>],
  [file |-> 2, kind |-> "function",    owner |-> 0, name |-> <<"f">>] >>

Decls == 1..Len(Corpus)
Classes == {d \in Decls : Corpus[d].kind = "class"}
Members == Decls \ Classes
DeclIds == [i \in Decls |-> i]

\* A documentation comment a declaration can carry before the first run.
OldDoc == <<NL, "o", "l", "d">>
\* The content of a test file that is on disk before the first run.
OldTest == <<"o", "l", "d">>

Tools == {"doc", "docLang", "test", "legacy"}
DocTools == {"doc", "docLang"}

\* The test file path computed for each declaration that has a name.
TestPaths ==
  [d \in Decls |-> testFilePath(FilePaths[Corpus[d].file], Corpus[d].name)]

\* The test file path the test generator computes for method d.
PathOf(d) == TestPaths[d]

\* The test file paths of the methods among S.
CandidatePaths(S) == {PathOf(d) : d \in {m \in S : Corpus[m].kind = "method"}}

\* The characters of the paths, in the order of their code points.
CodeOrder == <<
  " ", "!", "\"", "#", "$", "%", "&", "'", "(", ")", "*", "+", ",", "-", ".", "/",
  "0", "1", "2", "3", "4", "5", "6", "7", "8", "9", ":", ";", "<", "=", ">", "?",
  "@", "A", "B", "C", "D", "E", "F", "G", "H", "I", "J", "K", "L", "M", "N", "O",
  "P", "Q", "R", "S", "T", "U", "V", "W", "X", "Y", "Z", "[", "\\", "]", "^", "_",
  "\\u0060", "a", "b", "c", "d", "e", "f", "g", "h", "i", "j", "k", "l", "m", "n", "o",
  "p", "q", "r", "s", "t", "u", "v", "w", "x", "y", "z", "{", "|", "}", "~" >>
CodeOf(c) == CHOOSE i \in 1..Len(CodeOrder) : CodeOrder[i] = c

\* Path a comes before path b in the order of the file list.
RECURSIVE PathBefore(_, _)
PathBefore(a, b) ==
  IF b = <<>> THEN FALSE
  ELSE IF a = <<>> THEN TRUE
  ELSE IF Head(a) = Head(b) THEN PathBefore(Tail(a), Tail(b))
  ELSE CodeOf(Head(a)) < CodeOf(Head(b))

\* The paths of S in that order.
RECURSIVE SortPaths(_)
SortPaths(S) ==
  IF S = {} THEN <<>>
  ELSE LET first == CHOOSE p \in S : \A q \in S \ {p} : PathBefore(p, q)
       IN <<first>> \o SortPaths(S \ {first})

\* The files the directory can hold, by number: the source files, then the
\* test files the test generator can write.  A test file holds the text of a
\* completion or of the user and no class, enum or function.
FileTable ==
  FilePaths
  \o SortPaths(CandidatePaths(Members) \ {FilePaths[i] : i \in 1..Len(FilePaths)})
FileIds == 1..Len(FileTable)
FileId(p) == CHOOSE f \in FileIds : FileTable[f] = p

\* All the files the directory can hold, in the order of their paths.
SortedFiles ==
  LET sorted == SortPaths({FileTable[f] : f \in FileIds})
  IN [i \in 1..Len(sorted) |-> FileId(sorted[i])]

\* The directories above path p.
RECURSIVE Ancestors(_)
Ancestors(p) ==
  LET d == dirname(p) IN IF d = p THEN {d} ELSE {d} \cup Ancestors(d)

\* The directories there are when the files of paths are on disk, with the
\* root and the working directory.
DirsOf(paths) == {<<"/">>, <<".">>} \cup UNION {Ancestors(p) : p \in paths}
SourcePaths == {FilePaths[i] : i \in 1..Len(FilePaths)}

VARIABLES
  tool,        \* the program that is run: tsDocumenter.js ("doc"), its
               \* multi-language variant ("docLang"), the test generator with
               \* the existence check ("test"), unitTestCreator.js ("legacy")
  present,     \* the declarations the project holds
  lens,        \* lens[d]: the length of the text of d
  disk,        \* disk[d]: the documentation comments of d in the saved file
  tree,        \* tree[d]: the documentation comments of d in the loaded project
  testFiles,   \* the test files on disk: path -> content
  pc,          \* "start", "select", "await", "done", "exit1", "crashed"
  run,         \* the number of the current run
  runtime,     \* the Node.js of this run: "coerce" (12), "warn" (14) or
               \* "throw" (15 and later)
  language,    \* process.argv[3] || 'en' of the current run
  fileIdx,     \* the position of the file loop in the discovered files
  pos,         \* the position of the declaration loop in the file's traversal
  outstanding, \* the declarations whose completion request is in flight
  result,      \* what the last completed request returned to the loop
  reqCount,    \* reqCount[d]: completion requests issued for d in this run
  visits,      \* visits[d]: times the loop considered d in this run
  saves,       \* saves[f]: times file f was saved in this run
  env,         \* the environment of the current run: is OPENAI_API_KEY set,
               \* is the <directory> argument given
  loaded,      \* the files of the project of the current run, as they were
               \* found when the project was loaded
  dirs,        \* the directories on disk
  arg,         \* the input of a text function applied on its own
  out          \* what the text function returned for arg

vars == <<tool, present, lens, disk, tree, testFiles, pc, run, runtime, language,
          fileIdx, pos, outstanding, result, reqCount, visits, saves, env, loaded,
          dirs, arg, out>>

\* The result slot before any request has completed.
NoResult == <<"no-result">>
\* The slots of a text function when none is applied.
NoText == <<"no-text">>
\* The environment before the start of a run reads it.
EnvUnread == [key |-> TRUE, dir |-> TRUE]

RECURSIVE Flatten(_)
Flatten(ss) == IF ss = <<>> THEN <<>> ELSE Head(ss) \o Flatten(Tail(ss))

\* The declarations of kind k that file f (owner 0) or class c holds.
OfKind(f, c, k) ==
  SelectSeq(DeclIds, LAMBDA d : /\ Corpus[d].file = f
                                /\ Corpus[d].owner = c
                                /\ Corpus[d].kind = k
                                /\ (d \in present \/ k = "class"))

getClasses(f) == OfKind(f, 0, "class")

\* The glob of tool t: **/*.ts, or **/*.{ts,tsx}.
GlobMatches(t, p) ==
  EndsWith(p, Ext) \/ (t /= "doc" /\ EndsWith(p, Ext \o <<"x">>))

\* addSourceFilesAtPaths: the files on disk that the tool's glob matches, the
\* source files and the test files of paths testPaths alike, in the order of
\* their paths.
Discovered(t, testPaths) ==
  SelectSeq(SortedFiles,
            LAMBDA f : /\ FileTable[f] \in SourcePaths \cup testPaths
                       /\ GlobMatches(t, FileTable[f]))

\* The declarations the main loop of tool t considers in file f, in order.
DocTraversal(f) ==
  Flatten([i \in 1..Len(getClasses(f)) |->
             OfKind(f, getClasses(f)[i], "method")
             \o OfKind(f, getClasses(f)[i], "property")
             \o OfKind(f, getClasses(f)[i], "constructor")])
  \o OfKind(f, 0, "member")

TestTraversal(f) ==
  Flatten([i \in 1..Len(getClasses(f)) |-> OfKind(f, getClasses(f)[i], "method")])

LegacyTraversal(f) == TestTraversal(f) \o OfKind(f, 0, "function")

Traversal(t, f) ==
  IF t \in DocTools THEN DocTraversal(f)
  ELSE IF t = "test" THEN TestTraversal(f)
  ELSE LegacyTraversal(f)

\* ------------------------------------------------------------ selection

\* JSDoc.getText(): the comment between its markers (the layout inside is the
\* parsing library's and the tools never read it).
getText(jsdoc) == OpenMarker \o jsdoc \o <<NL, " ">> \o CloseMarker

\* method.getJsDocs().map(jsdoc => jsdoc.getText()).join('\n')
documentationOf(docs) == join([i \in 1..Len(docs) |-> getText(docs[i])])

\* needsDoc without the test: every declaration is taken as undocumented.
needsDocAlways(docs) == TRUE

\* !documentation || /^\s*$/.test(documentation)
needsDoc(docs) ==
  LET documentation == documentationOf(docs)
  IN documentation = <<>> \/ \A i \in 1..Len(documentation) : IsSpace(documentation[i])

\* longEnough with >= for >.
longEnoughOrEqual(len) == len >= MinLength

\* code.length > config.minLength
longEnough(len) == len > MinLength

\* testFileExists answering false for every path.
testFileExistsNever(path) == FALSE

\* testFileExists(testFilePath): fs.existsSync.
testFileExists(path) == path \in DOMAIN testFiles

\* ------------------------------------------------------------- appliers

\* updateDoc(method, documentation) on the method's documentation comments:
\* the first one replaced, or a new one added.
updateDoc(docs, documentation) ==
  LET comment == commentOf(extractComment(documentation))
  IN IF Len(docs) > 0 THEN [docs EXCEPT ![1] = comment] ELSE <<comment>>

\* shouldUpdate without the test of the result.
shouldUpdateAlways(newDocumentation) == TRUE

\* if (newDocumentation) { await updateDoc(...) }
shouldUpdate(newDocumentation) == Truthy(newDocumentation)

\* fs.writeFileSync(filePath, testFileContent, 'utf-8') on the test files.
writeFileSync(files, path, content) ==
  [q \in DOMAIN files \cup {path} |-> IF q = path THEN content ELSE files[q]]

\* ensureDirectoryExistence(filePath) with the directories ds and the files
\* of paths fs on disk: nothing to do when the directory of the file exists;
\* or else the function calls itself on the directory of that directory (and
\* so looks at the directory two levels up) and makes the directory with
\* fs.mkdirSync, which throws when the parent is missing.
RECURSIVE ensureDirectoryExistence(_, _, _)
ensureDirectoryExistence(ds, fs, filePath) ==
  LET dir == dirname(filePath)
  IN IF dir \in ds \cup fs THEN [threw |-> FALSE, dirs |-> ds]
     ELSE LET r == ensureDirectoryExistence(ds, fs, dirname(dir))
          IN IF r.threw THEN r
             ELSE IF dirname(dir) \in r.dirs /\ dir \notin r.dirs \cup fs
               THEN [threw |-> FALSE, dirs |-> r.dirs \cup {dir}]
             ELSE [threw |-> TRUE, dirs |-> r.dirs]

\* fs.writeFileSync(path, null) throws a TypeError (Node.js 14 and later);
\* Node.js 12 writes the text "null".
nullThrows(rt) == rt /= "coerce"

\* An exception that leaves an async main ends the process with exit code 1
\* (Node.js 15 and later); Node.js 12 and 14 print a warning and the process
\* lives on while a request is outstanding.
rejectionExits(rt) == rt = "throw"

\* fs.writeFileSync can open the file: its directory is a directory (not a
\* file, not missing) and the path is not a directory itself.
canOpen(ds, path) == dirname(path) \in ds /\ path \notin ds

\* createUnitTestFile(filePath, testFileContent) under the runtime rt:
\* ensureDirectoryExistence, then the write, which throws when the data is
\* null (see nullThrows) or the file cannot be opened.
createUnitTestFile(files, ds, filePath, testFileContent, rt) ==
  LET e == ensureDirectoryExistence(ds, SourcePaths \cup DOMAIN files, filePath)
  IN IF \/ e.threw
        \/ (testFileContent = Null /\ nullThrows(rt))
        \/ ~canOpen(e.dirs, filePath)
     THEN [threw |-> TRUE, files |-> files, dirs |-> e.dirs]
     ELSE [threw |-> FALSE,
           files |-> writeFileSync(files, filePath,
                       IF testFileContent = Null THEN NullText ELSE testFileContent),
           dirs |-> e.dirs]

\* Advance that stays on the declaration.
AdvanceStuck(i) == i

\* The for-of loops step to the next declaration.
Advance(i) == i + 1

\* ---------------------------------------------------------------- state

ClassLength == MinLength + 2

Languages == {"en", "xx"}
\* The languages config.prompt has an entry for.
ConfigLanguages == {"en"}

Zero == [d \in Decls |-> 0]
NoSaves == [f \in FileIds |-> 0]

Init ==
  /\ tool \in Tools
  /\ present \in {S \in SUBSET Members : Cardinality(S) <= MaxDecls}
  /\ lens \in {[d \in Decls |-> IF d \in Classes THEN ClassLength
                                  ELSE IF d \in present THEN l[d] ELSE MinLength] :
                 l \in [present -> Lengths]}
  /\ disk \in {[d \in Decls |-> IF d \in present THEN k[d] ELSE <<>>] :
                 k \in [present -> {<<>>, <<OldDoc>>}]}
  /\ tree = disk
  /\ testFiles \in {[q \in S |-> OldTest] :
                      S \in IF tool \in DocTools THEN {{}}
                           ELSE SUBSET CandidatePaths(present)}
  /\ pc = "start"
  /\ run = 1
  /\ runtime = "throw"
  /\ language = "en"
  /\ fileIdx = 1
  /\ pos = 1
  /\ outstanding = {}
  /\ result = NoResult
  /\ reqCount = Zero
  /\ visits = Zero
  /\ saves = NoSaves
  /\ env = EnvUnread
  /\ loaded = <<>>
  /\ dirs = DirsOf(SourcePaths \cup DOMAIN testFiles)
  /\ arg = NoText
  /\ out = NoText

Files == loaded
CurFile == Files[fileIdx]
CurTraversal == Traversal(tool, CurFile)
Cur == CurTraversal[pos]
InLoop == pc = "select" /\ pos <= Len(CurTraversal)

\* startupExit without the test of the directory argument.
startupExitKeyOnly(key, dir) == ~key

\* if (!process.env.OPENAI_API_KEY) process.exit(1), and in main
\* if (!dirPath) process.exit(1).
startupExit(key, dir) == ~key \/ ~dir

\* Module load and the start of main: config.json is parsed, the API key and
\* the directory argument are checked, the project is loaded.
Startup ==
  /\ pc = "start"
  /\ \E cfgOk, key, dir \in BOOLEAN,
        lang \in IF tool = "docLang" THEN Languages ELSE {"en"},
        rt \in IF tool = "test" THEN {"throw", "coerce"}
               ELSE IF tool = "legacy" THEN {"throw", "warn"}
               ELSE {"throw"} :
    /\ IF ~cfgOk THEN
         /\ pc' = "crashed"
         /\ UNCHANGED <<env, loaded, tree, language, runtime>>
       ELSE IF startupExit(key, dir) THEN
         /\ pc' = "exit1"
         /\ env' = [key |-> key, dir |-> dir]
         /\ UNCHANGED <<loaded, tree, language, runtime>>
       ELSE
         /\ loaded' = Discovered(tool, DOMAIN testFiles)
         /\ pc' = IF Len(loaded') = 0 THEN "done" ELSE "select"
         /\ env' = [key |-> key, dir |-> dir]
         /\ tree' = disk
         /\ language' = lang
         /\ runtime' = rt
  /\ fileIdx' = 1
  /\ pos' = 1
  /\ UNCHANGED <<tool, present, lens, disk, testFiles, run, outstanding, result,
                 reqCount, visits, saves, dirs, arg, out>>

\* One iteration of a declaration loop of the documentation tools, up to the
\* await of createDoc.
DocSelect ==
  /\ tool \in DocTools
  /\ InLoop
  /\ visits' = [visits EXCEPT ![Cur] = @ + 1]
  /\ IF needsDoc(tree[Cur]) /\ longEnough(lens[Cur]) THEN
       IF tool = "docLang" /\ language \notin ConfigLanguages THEN
         \* config.prompt[language] is undefined: createDoc throws before its try
         /\ pc' = "crashed"
         /\ UNCHANGED <<outstanding, reqCount, pos>>
       ELSE
         /\ \E retries \in 0..MaxRetries :
              /\ outstanding' = outstanding \cup {Cur}
              /\ reqCount' = [reqCount EXCEPT ![Cur] = @ + 1]
         /\ pc' = "await"
         /\ UNCHANGED pos
     ELSE
       /\ pos' = Advance(pos)
       /\ UNCHANGED <<pc, outstanding, reqCount>>
  /\ UNCHANGED <<tool, present, lens, disk, tree, testFiles, run, runtime, language,
                 fileIdx, result, saves>>
  /\ UNCHANGED <<env, loaded, dirs, arg, out>>

\* The response arrives: createDoc returns, the documentation is applied.
DocReceive ==
  /\ tool \in DocTools
  /\ pc = "await"
  /\ \E resp \in Responses :
       LET newDocumentation == createDoc(resp)
       IN /\ result' = newDocumentation
          /\ IF shouldUpdate(newDocumentation) THEN
               IF newDocumentation = Null THEN
                 \* extractComment(null): text.indexOf throws
                 /\ pc' = "crashed"
                 /\ UNCHANGED <<tree, pos>>
               ELSE
                 /\ tree' = [tree EXCEPT ![Cur] = updateDoc(@, newDocumentation)]
                 /\ pos' = Advance(pos)
                 /\ pc' = "select"
             ELSE
               /\ pos' = Advance(pos)
               /\ pc' = "select"
               /\ UNCHANGED tree
  /\ outstanding' = outstanding \ {Cur}
  /\ UNCHANGED <<tool, present, lens, disk, testFiles, run, runtime, language,
                 fileIdx, reqCount, visits, saves>>
  /\ UNCHANGED <<env, loaded, dirs, arg, out>>

\* One iteration of the method loop of the test generator, up to the await of
\* generateTestFileContent.
TestSelect ==
  /\ tool = "test"
  /\ InLoop
  /\ visits' = [visits EXCEPT ![Cur] = @ + 1]
  /\ IF /\ Corpus[Cur].name /= <<>>
        /\ longEnough(lens[Cur])
        /\ ~testFileExists(PathOf(Cur)) THEN
       /\ \E retries \in 0..MaxRetries :
            /\ outstanding' = outstanding \cup {Cur}
            /\ reqCount' = [reqCount EXCEPT ![Cur] = @ + 1]
       /\ pc' = "await"
       /\ UNCHANGED pos
     ELSE
       /\ pos' = Advance(pos)
       /\ UNCHANGED <<pc, outstanding, reqCount>>
  /\ UNCHANGED <<tool, present, lens, disk, tree, testFiles, run, runtime, language,
                 fileIdx, result, saves>>
  /\ UNCHANGED <<env, loaded, dirs, arg, out>>

\* The response arrives: generateTestFileContent returns and
\* createUnitTestFile writes what it returned, with no test of it; an
\* exception of createUnitTestFile ends the run.
TestReceive ==
  /\ tool = "test"
  /\ pc = "await"
  /\ \E resp \in Responses :
       LET testFileContent == generateTestFileContent(resp)
           written == createUnitTestFile(testFiles, dirs, PathOf(Cur),
                                         testFileContent, runtime)
       IN /\ result' = testFileContent
          /\ testFiles' = written.files
          /\ dirs' = written.dirs
          /\ IF written.threw THEN
               /\ pc' = "crashed"
               /\ UNCHANGED pos
             ELSE
               /\ pos' = Advance(pos)
               /\ pc' = "select"
  /\ outstanding' = outstanding \ {Cur}
  /\ UNCHANGED <<tool, present, lens, disk, tree, run, runtime, language,
                 fileIdx, reqCount, visits, saves>>
  /\ UNCHANGED <<env, loaded, arg, out>>

\* One iteration of a loop of unitTestCreator.js.  For a method the argument
\* `methodname` is not defined: a ReferenceError before the call.  For a
\* function generateTestFileContent is called and not awaited (the request is
\* sent), then `path` is not defined: a ReferenceError before any write.
LegacySelect ==
  /\ tool = "legacy"
  /\ InLoop
  /\ visits' = [visits EXCEPT ![Cur] = @ + 1]
  /\ IF Corpus[Cur].name /= <<>> /\ longEnough(lens[Cur]) THEN
       /\ pc' = "crashed"
       /\ IF Corpus[Cur].kind = "method" THEN
            UNCHANGED <<outstanding, reqCount>>
          ELSE
            /\ outstanding' = outstanding \cup {Cur}
            /\ reqCount' = [reqCount EXCEPT ![Cur] = @ + 1]
       /\ UNCHANGED pos
     ELSE
       /\ pos' = Advance(pos)
       /\ UNCHANGED <<pc, outstanding, reqCount>>
  /\ UNCHANGED <<tool, present, lens, disk, tree, testFiles, run, runtime, language,
                 fileIdx, result, saves>>
  /\ UNCHANGED <<env, loaded, dirs, arg, out>>

\* The response to the request that unitTestCreator.js did not await arrives
\* after main has ended, in a process the ReferenceError did not end:
\* generateTestFileContent runs on from its await to its return, and what it
\* returns settles a promise that nothing reads.
LegacyReceive ==
  /\ tool = "legacy"
  /\ pc = "crashed"
  /\ ~rejectionExits(runtime)
  /\ outstanding /= {}
  /\ \E d \in outstanding : outstanding' = outstanding \ {d}
  /\ UNCHANGED <<tool, present, lens, disk, tree, testFiles, pc, run, runtime,
                 language, fileIdx, pos, result, reqCount, visits, saves>>
  /\ UNCHANGED <<env, loaded, dirs, arg, out>>

\* loopsDone that is already true at the last of the n declarations.
loopsDoneEarly(p, n) == p >= n

\* The declaration loops of a file are over: the position is past the last of
\* the file's n declarations.
loopsDone(p, n) == p > n

\* The end of a file's loops: project.saveSync() writes the project back, and
\* the file loop steps to the next file or ends.
SaveFile ==
  /\ pc = "select"
  /\ loopsDone(pos, Len(CurTraversal))
  /\ disk' = tree
  /\ saves' = [saves EXCEPT ![CurFile] = @ + 1]
  /\ IF fileIdx < Len(Files)
     THEN /\ fileIdx' = fileIdx + 1
          /\ pos' = 1
          /\ UNCHANGED pc
     ELSE /\ pc' = "done"
          /\ UNCHANGED <<fileIdx, pos>>
  /\ UNCHANGED <<tool, present, lens, tree, testFiles, run, runtime, language,
                 outstanding, result, reqCount, visits>>
  /\ UNCHANGED <<env, loaded, dirs, arg, out>>

\* The tool is started again on the same directory.
Restart ==
  /\ pc \in {"done", "exit1", "crashed"}
  /\ outstanding = {} \/ rejectionExits(runtime)
  /\ run < MaxRuns
  /\ run' = run + 1
  /\ pc' = "start"
  /\ tree' = disk
  /\ runtime' = "throw"
  /\ language' = "en"
  /\ fileIdx' = 1
  /\ pos' = 1
  /\ outstanding' = {}
  /\ result' = NoResult
  /\ reqCount' = Zero
  /\ visits' = Zero
  /\ saves' = NoSaves
  /\ env' = EnvUnread
  /\ loaded' = <<>>
  /\ UNCHANGED <<tool, present, lens, disk, testFiles, dirs, arg, out>>

Next ==
  \/ Startup
  \/ DocSelect
  \/ DocReceive
  \/ TestSelect
  \/ TestReceive
  \/ LegacySelect
  \/ LegacyReceive
  \/ SaveFile
  \/ Restart

Spec == Init /\ [][Next]_vars

\* The documentation tools alone.
InitDoc == Init /\ tool \in DocTools
NextDoc == Startup \/ DocSelect \/ DocReceive \/ SaveFile \/ Restart
SpecDoc == InitDoc /\ [][NextDoc]_vars

\* One run of a documentation tool in which every request returns and the
\* loops run on.
NextDocRun == Startup \/ DocSelect \/ DocReceive \/ SaveFile
FairSpecDoc ==
  /\ InitDoc
  /\ [][NextDocRun]_vars
  /\ WF_vars(Startup)
  /\ WF_vars(DocSelect)
  /\ WF_vars(DocReceive)
  /\ WF_vars(SaveFile)

\* The test generators alone.
InitTest == Init /\ tool \in {"test", "legacy"}
NextTest ==
  \/ Startup
  \/ TestSelect
  \/ TestReceive
  \/ LegacySelect
  \/ LegacyReceive
  \/ SaveFile
  \/ Restart
SpecTest == InitTest /\ [][NextTest]_vars

\* ------------------------------------------------------ text functions

\* The state of the tool outside a run of main, for the specifications that
\* apply one function of the tool to an input.
NoRun(t) ==
  /\ tool = t
  /\ present = {}
  /\ lens = [d \in Decls |-> IF d \in Classes THEN ClassLength ELSE MinLength]
  /\ disk = [d \in Decls |-> <<>>]
  /\ tree = disk
  /\ testFiles = [q \in {} |-> OldTest]
  /\ run = 1
  /\ runtime = "throw"
  /\ language = "en"
  /\ fileIdx = 1
  /\ pos = 1
  /\ outstanding = {}
  /\ result = NoResult
  /\ reqCount = Zero
  /\ visits = Zero
  /\ saves = NoSaves
  /\ env = EnvUnread
  /\ loaded = <<>>
  /\ dirs = DirsOf(SourcePaths)

\* Bounds of the texts.
MaxTextLen == 5
MaxPieces == 2

\* The characters of the texts extractComment is applied to.
TextAlphabet == {"/", "*", "a", " ", "\n", "\f"}
Texts == UNION {[1..n -> TextAlphabet] : n \in 0..MaxTextLen}

\* extractComment is applied to the text arg.
ExtractStep ==
  /\ pc = "extract"
  /\ out' = extractComment(arg)
  /\ pc' = "extracted"
  /\ UNCHANGED <<tool, present, lens, disk, tree, testFiles, run, runtime, language,
                 fileIdx, pos, outstanding, result, reqCount, visits, saves, env,
                 loaded, dirs, arg>>

InitExtract == NoRun("doc") /\ pc = "extract" /\ arg \in Texts /\ out = NoText
NextExtract == ExtractStep
SpecExtract == InitExtract /\ [][NextExtract]_vars

\* The templates config.prompt.beforeCode and config.prompt.afterCode can
\* hold: up to MaxPieces pieces, each a placeholder token or plain text.
Pieces == {ClassToken, MethodToken, FileToken, <<"x">>}
Templates ==
  {Flatten(ps) : ps \in UNION {[1..n -> Pieces] : n \in 0..MaxPieces}}

\* Class and method names, and class texts with and without comments.
ClassNames == {<<"F", "o", "o">>, <<"$", "$">>}
MethodNames == {<<"m">>, <<"'", "$", "'">>}
ClassTexts == {
  <<"c">>,
  <<"c", "/", "/", "x", "\n", "d">>,
  <<"/", "*", "x", "*", "/", "c">> }

\* The arguments of generateTestFileContent and the templates of config.json.
PromptInputs ==
  [before : Templates, after : Templates, className : ClassNames,
   funcName : MethodNames, clasCode : ClassTexts]

\* generateTestFileContent builds the user message of the inputs arg.
PromptStep ==
  /\ pc = "prompt"
  /\ out' = userMessage(arg.before, arg.after, arg.className, arg.funcName,
                        testFileName(FilePaths[1], arg.funcName), arg.clasCode)
  /\ pc' = "prompted"
  /\ UNCHANGED <<tool, present, lens, disk, tree, testFiles, run, runtime, language,
                 fileIdx, pos, outstanding, result, reqCount, visits, saves, env,
                 loaded, dirs, arg>>

InitPrompt == NoRun("test") /\ pc = "prompt" /\ arg \in PromptInputs /\ out = NoText
NextPrompt == PromptStep
SpecPrompt == InitPrompt /\ [][NextPrompt]_vars

\* --------------------------------------------------------------- claims

\* A step in which the documentation tool receives the answer of its request.
DocAnswered == tool \in DocTools /\ pc = "await" /\ pc' /= "await"
\* A step in which the test generator receives the answer of its request.
TestAnswered == tool = "test" /\ pc = "await" /\ pc' /= "await"

\* C1: documentation mode: a non-null result in which extractComment finds no
\* comment (no open marker, or no close marker after it) leaves the
\* declaration's documentation comments as they were.
C1_NoMarkerNoMutation ==
  [][(DocAnswered /\ result' /= Null /\ extractComment(result') = Null)
       => tree' = tree]_vars

\* C2: documentation mode: for a result of the form "/**", line feed, lines
\* " * <content>", " */", the comment spliced onto the declaration is one line
\* feed followed by the content lines joined by line feeds, nothing more.
C2_SplicedContentExact ==
  [][(DocAnswered /\ result' = blockOf(BlockLines))
       => tree'[Cur] = << <<NL>> \o join(BlockLines) >>]_vars

\* C3: documentation mode: for a declaration that carries a documentation
\* comment no completion request is issued and its comments stay as they are.
C3_DocumentedLeftAlone ==
  [][\A d \in present :
       (tool \in DocTools /\ Len(tree[d]) > 0)
         => (reqCount'[d] <= reqCount[d] /\ tree'[d] = tree[d])]_vars

\* C3 witness: a run of a documentation tool has considered a long declaration
\* that carried a comment, issued no request for it and kept the comment.
C3_Witness ==
  /\ tool \in DocTools
  /\ pc = "done"
  /\ \E d \in present :
       /\ visits[d] = 1
       /\ lens[d] > MinLength
       /\ tree[d] = <<OldDoc>>
       /\ reqCount[d] = 0

\* C4: in every tool, for a declaration whose text is no longer than
\* config.minLength no completion request is issued, no comment is spliced and
\* no test file is written for it, documented or not.
C4_ShortSkipped ==
  [][\A d \in present :
       lens[d] <= MinLength
         => (/\ reqCount'[d] <= reqCount[d]
             /\ tree'[d] = tree[d]
             /\ (testFiles' /= testFiles => Cur /= d))]_vars

\* C4 witness: the test generator has finished a run in which it considered an
\* undocumented method of exactly config.minLength characters whose test file
\* does not exist, and issued no request for it.
C4_Witness ==
  /\ tool = "test"
  /\ pc = "done"
  /\ \E d \in present :
       /\ Corpus[d].kind = "method"
       /\ visits[d] = 1
       /\ lens[d] = MinLength
       /\ tree[d] = <<>>
       /\ PathOf(d) \notin DOMAIN testFiles
       /\ reqCount[d] = 0

\* C5: test generation: a test file that exists is never written again, and no
\* request is issued for a method whose test file exists, in any run and for
\* any number of methods with the same test file path.
C5_ExistingTestFileKept ==
  [][(tool \in {"test", "legacy"})
       => ((\A q \in DOMAIN testFiles :
               q \in DOMAIN testFiles' /\ testFiles'[q] = testFiles[q])
           /\ (\A d \in present :
                 (Corpus[d].kind = "method" /\ PathOf(d) \in DOMAIN testFiles)
                   => reqCount'[d] <= reqCount[d]))]_vars

\* C5 witness: the second run of the test generator has finished; two long
\* methods share the path of a test file that the first run created, and the
\* second run considered both without a request.
C5_Witness ==
  /\ tool = "test"
  /\ run = 2
  /\ pc = "done"
  /\ \E d1, d2 \in present :
       /\ d1 /= d2
       /\ Corpus[d1].kind = "method" /\ Corpus[d2].kind = "method"
       /\ PathOf(d1) = PathOf(d2)
       /\ lens[d1] > MinLength /\ lens[d2] > MinLength
       /\ visits[d1] = 1 /\ visits[d2] = 1
       /\ reqCount[d1] = 0 /\ reqCount[d2] = 0
       /\ PathOf(d1) \in DOMAIN testFiles
       /\ testFiles[PathOf(d1)] /= OldTest

\* C6: test generation: when the request for a method fails (the result is
\* null) no test file is produced and the loop goes on to the next method.
C6_FailureSkipsFile ==
  [][(TestAnswered /\ result' = Null)
       => (testFiles' = testFiles /\ pc' = "select" /\ pos' = pos + 1)]_vars

\* The declarations the current run has to consider, and its files.
AllVisited ==
  \A i \in 1..Len(Files) :
    \A k \in 1..Len(Traversal(tool, Files[i])) : visits[Traversal(tool, Files[i])[k]] = 1
AllSaved == \A i \in 1..Len(Files) : saves[Files[i]] >= 1

\* The answers that are failures: a transport or HTTP error, a choice without
\* a message, a message without content.
FailedResponses ==
  {r \in Responses : r.kind = "error" \/ ~r.hasMessage \/ r.content = Null}

\* C7: documentation mode: a failed request (transport or HTTP error, no
\* message, no content) makes createDoc return null; a null result leaves the
\* declaration as it was and the loop running, and the run then considers
\* every declaration of every file and saves every file before it ends.
C7_FailureNotFatal ==
  /\ \A r \in FailedResponses : createDoc(r) = Null
  /\ [][(DocAnswered /\ result' = Null) => (tree' = tree /\ pc' = "select")]_vars
  /\ (tool \in DocTools /\ pc = "select" /\ result = Null)
       ~> (pc = "done" /\ AllVisited /\ AllSaved)

\* C7 witness: a run over two files has ended with every file saved; the
\* request for a declaration of the first file failed and left it without a
\* comment, and a declaration of the second file was considered after it.
C7_Witness ==
  /\ tool \in DocTools
  /\ pc = "done"
  /\ result = Null
  /\ AllVisited /\ AllSaved
  /\ \E d1, d2 \in present :
       /\ Corpus[d1].file = 1 /\ Corpus[d2].file = 2
       /\ reqCount[d1] = 1 /\ tree[d1] = <<>>
       /\ visits[d2] = 1 /\ reqCount[d2] = 0
       /\ saves[1] = 1 /\ saves[2] = 1

\* C8: what the completion client returns is null or a non-empty string
\* without leading or trailing white space.
C8_ResultNonEmptyTrimmed ==
  result \in {NoResult, Null} \/ (result /= <<>> /\ trim(result) = result)

\* C9: in a run, at most one completion request is issued for a declaration
\* and the loop considers it at most once, whatever the retry count.
C9_AtMostOneRequest ==
  \A d \in Decls : reqCount[d] <= 1 /\ visits[d] <= 1

\* C9 witness: a run has ended after the only request for a declaration
\* failed.
C9_Witness ==
  /\ tool \in DocTools
  /\ pc = "done"
  /\ result = Null
  /\ \E d \in present : reqCount[d] = 1 /\ visits[d] = 1 /\ tree[d] = <<>>

\* C10: documentation mode: an undocumented class longer than
\* config.minLength has had a completion request by the end of the run.
C10_ClassesRequested ==
  (tool \in DocTools /\ pc = "done")
    => \A c \in Classes :
         (/\ \E i \in 1..Len(Files) : Files[i] = Corpus[c].file
          /\ tree[c] = <<>>
          /\ lens[c] > MinLength)
           => reqCount[c] >= 1

\* ------------------------------------------------------------ C11 .. C16

\* 0-based index of the last "." of s, or -1.
LastDot(s) ==
  LET hits == {i \in 0..(Len(s) - 1) : s[i + 1] = "."}
  IN IF hits = {} THEN -1 ELSE CHOOSE i \in hits : \A k \in hits : k <= i

\* The last segment of path p.
BaseName(p) == SubSeq(p, LastSlash(p) + 2, Len(p))
\* The extension of path p, with its dot.
ExtensionOf(p) == SubSeq(BaseName(p), LastDot(BaseName(p)) + 1, Len(BaseName(p)))
\* The last segment of path p without its extension.
StemOf(p) == SubSeq(BaseName(p), 1, LastDot(BaseName(p)))

\* <directory of the source file>/<stem>.<methodName>.spec<extension>
NamedTestPath(d) ==
  LET p == FilePaths[Corpus[d].file]
  IN pathJoin(dirname(p),
              StemOf(p) \o <<".">> \o Corpus[d].name \o <<".", "s", "p", "e", "c">>
                \o ExtensionOf(p))

\* C11: test generation: the file written for a method of a discovered source
\* file (.ts or .tsx) is
\* <base name without its extension>.<methodName>.spec.<extension>
\* in the directory of the source file.
C11_TestFileNamed ==
  [][(TestAnswered /\ testFiles' /= testFiles)
       => DOMAIN testFiles' = DOMAIN testFiles \cup {NamedTestPath(Cur)}]_vars

\* C12: a start without the API key or without the directory argument ends
\* the process with exit code 1 before any work: no source file is loaded, no
\* completion request is issued, no file is written, and nothing more happens
\* in that run.
C12_StartupFailureFatal ==
  [][/\ (pc = "start" /\ pc' /= "start" /\ (~env'.key \/ ~env'.dir))
          => (/\ pc' = "exit1"
              /\ UNCHANGED <<disk, tree, testFiles, dirs>>
              /\ loaded' = <<>>
              /\ reqCount' = Zero
              /\ visits' = Zero
              /\ saves' = NoSaves
              /\ outstanding' = {})
     /\ pc = "exit1" => pc' = "start"]_vars

\* C12 witness: a directory with declarations to process, the key set and the
\* directory argument omitted: the run has ended with exit code 1.
C12_Witness ==
  /\ pc = "exit1"
  /\ env.key
  /\ ~env.dir
  /\ present /= {}
  /\ reqCount = Zero

\* The declarations the loops of file f go through.
DeclsOf(f) == {Traversal(tool, f)[k] : k \in 1..Len(Traversal(tool, f))}

\* The loops of the i-th discovered file are over and its save step has run.
FileFinished(i) == i < fileIdx \/ pc = "done"

\* C13: documentation mode: in a run the save step of a file has run once
\* when the loops of the file are over and not at all before; it runs after
\* every declaration of the file has been handled, and no declaration of a
\* later file is considered before it.
C13_SavedOncePerFile ==
  tool \in DocTools
    => /\ \A i \in 1..Len(Files) :
            /\ saves[Files[i]] = IF FileFinished(i) THEN 1 ELSE 0
            /\ FileFinished(i) => \A d \in DeclsOf(Files[i]) : visits[d] = 1
            /\ i > fileIdx => \A d \in DeclsOf(Files[i]) : visits[d] = 0
       /\ \A f \in FileIds :
            (\A i \in 1..Len(Files) : Files[i] /= f) => saves[f] = 0

\* C13 witness: the first file has been saved after a declaration of it was
\* handled, and the loops are inside the second file, which is not saved yet.
C13_Witness ==
  /\ tool \in DocTools
  /\ Len(Files) = 2
  /\ fileIdx = 2
  /\ pc = "await"
  /\ saves[Files[1]] = 1
  /\ saves[Files[2]] = 0
  /\ \E d \in DeclsOf(Files[1]) : visits[d] = 1
  /\ visits[Cur] = 1

\* C14: at every point of a run at most one completion request is
\* outstanding, and while one is outstanding the run is waiting for it, on
\* the declaration it was issued for: nothing is applied or written and no
\* other declaration is considered before it completes.
C14_RequestsAwaited ==
  /\ Cardinality(outstanding) <= 1
  /\ outstanding /= {} => (pc = "await" /\ outstanding = {Cur})

\* Every occurrence of token in s replaced by the text value, as it is.
RECURSIVE Substituted(_, _, _)
Substituted(s, token, value) ==
  LET i == indexOf(s, token, 0)
  IN IF i = -1 THEN s
     ELSE SubSeq(s, 1, i) \o value
          \o Substituted(SubSeq(s, i + Len(token) + 1, Len(s)), token, value)

\* A template with the three placeholder tokens replaced wherever they occur.
Filled(template, className, methodName, testName) ==
  Substituted(Substituted(Substituted(template, ClassToken, className),
                          MethodToken, methodName),
              FileToken, testName)

\* C15: test generation: the user message is the before template, the class
\* text without its comments and the after template, with {className},
\* {methodName} and {testFileName} replaced literally by the class name, the
\* method name and the test file name wherever they occur in either template.
C15_PromptSubstituted ==
  pc = "prompted"
    => LET testName == testFileName(FilePaths[1], arg.funcName)
       IN out = Filled(arg.before, arg.className, arg.funcName, testName)
                  \o removeComments(arg.clasCode)
                  \o Filled(arg.after, arg.className, arg.funcName, testName)

\* C16: whenever extractComment returns a result that is not null, the close
\* marker it used starts at or after the end of the open marker (close index
\* >= open index + 3): the two markers share no character.
C16_CloseAfterOpen ==
  (pc = "extracted" /\ out /= Null)
    => commentEndOf(arg) >= commentStartOf(arg) + Len(OpenMarker)

====
